---- MODULE Spec2Model ----
(***************************************************************************)
(* The market-neutral weight calculator of strategy.ipynb: the pandas      *)
(* development cell (cell 3), step (cell 6), the single call (cell 7), the *)
(* walk-forward driver (cell 8) and the raw submission template (cell 18). *)
(*                                                                         *)
(* Numbers.  A float is a pair <<n, d>>: a reduced fraction n/d with d > 0,*)
(* or <<1,0>> (+inf), <<-1,0>> (-inf), <<0,0>> (NaN).  Arithmetic follows  *)
(* IEEE-754 on the special values and is exact on the finite ones: the     *)
(* rounding of binary floating point and the sign of zero are not          *)
(* modelled.                                                               *)
(***************************************************************************)
EXTENDS Integers, Sequences, FiniteSets, TLC

VARIABLES
    data,          \* the loaded DataArray: rows (time, close, is_liquid) in the order loaded
    bottleneck,    \* whether this installation's xarray rolls with bottleneck
    pc,            \* the notebook cell that runs next
    weights,       \* cell 3: the pandas weights table
    single,        \* cell 7: what the single call of step gave
    output,        \* cell 8: the Output Series of the walk-forward driver
    raw_weights    \* cell 18: the weights of the raw submission template

vars == <<data, bottleneck, pc, weights, single, output, raw_weights>>

(***************************************************************************)
(* Bounds of the model.                                                    *)
(***************************************************************************)
\* rolling({"time":100}) / rolling(100) / init_data_length=100: the length of
\* the trailing window, scaled down so that panels can be enumerated.
Window == 2
\* the longest Panel (number of dates) the loader supplies
MaxLen == 4

AssetSeq == <<"A", "B", "C">>
Asset == {AssetSeq[k] : k \in 1..Len(AssetSeq)}

(***************************************************************************)
(* Floating-point values.                                                  *)
(***************************************************************************)
NaN  == <<0, 0>>
PInf == <<1, 0>>
NInf == <<-1, 0>>
Zero == <<0, 1>>
One  == <<1, 1>>

IAbs(n) == IF n < 0 THEN -n ELSE n
Sgn(n) == IF n > 0 THEN 1 ELSE IF n < 0 THEN -1 ELSE 0

RECURSIVE GCD(_, _)
GCD(a, b) == IF b = 0 THEN a ELSE GCD(b, a % b)

\* the float n/d (0/0 = NaN, x/0 = +-inf)
Frac(n, d) ==
    IF d = 0 THEN <<Sgn(n), 0>>
    ELSE LET g == GCD(IAbs(n), IAbs(d))
         IN  <<(Sgn(d) * n) \div g, IAbs(d) \div g>>

IsNaN(x) == x = NaN
IsInf(x) == x[2] = 0 /\ x[1] # 0
IsFinite(x) == x[2] > 0

\* x > 0.0 (False for NaN)
GtZero(x) == x[1] > 0

FNeg(x) == <<-x[1], x[2]>>
FAbs(x) == <<IAbs(x[1]), x[2]>>

\* the finite operations cancel common factors before they multiply, which
\* keeps the integers small
FAdd(x, y) ==
    IF IsNaN(x) \/ IsNaN(y) THEN NaN
    ELSE IF IsInf(x) THEN (IF IsInf(y) /\ y # x THEN NaN ELSE x)
    ELSE IF IsInf(y) THEN y
    ELSE LET g == GCD(x[2], y[2])
         IN  Frac(x[1] * (y[2] \div g) + y[1] * (x[2] \div g), (x[2] \div g) * y[2])

FSub(x, y) == FAdd(x, FNeg(y))

FMul(x, y) ==
    IF IsNaN(x) \/ IsNaN(y) THEN NaN
    ELSE IF IsInf(x) \/ IsInf(y)
         THEN <<Sgn(x[1]) * Sgn(y[1]), 0>>     \* 0 * inf = NaN
    ELSE LET g == GCD(IAbs(x[1]), y[2])
             h == GCD(IAbs(y[1]), x[2])
         IN  Frac((x[1] \div g) * (y[1] \div h), (x[2] \div h) * (y[2] \div g))

FDiv(x, y) ==
    IF IsNaN(x) \/ IsNaN(y) THEN NaN
    ELSE IF IsInf(y) THEN (IF IsInf(x) THEN NaN ELSE Zero)
    ELSE IF IsInf(x) THEN (IF y[1] < 0 THEN FNeg(x) ELSE x)
    ELSE IF y[1] = 0 THEN <<Sgn(x[1]), 0>>      \* x/0 = +-inf, 0/0 = NaN
    ELSE FMul(x, <<Sgn(y[1]) * y[2], IAbs(y[1])>>)

\* x < y on finite floats
FLess(x, y) ==
    LET g == GCD(x[2], y[2])
    IN  x[1] * (y[2] \div g) < y[1] * (x[2] \div g)

FInt(k) == <<k, 1>>

\* sum over the assets of v, NaN entries skipped (skipna=True): 0 when all are NaN
RECURSIVE NanSumTo(_, _)
NanSumTo(v, k) ==
    IF k = 0 THEN Zero
    ELSE LET x == v[AssetSeq[k]]
         IN  IF IsNaN(x) THEN NanSumTo(v, k - 1) ELSE FAdd(NanSumTo(v, k - 1), x)

NanSum(v) == NanSumTo(v, Len(AssetSeq))

NanCount(v) == Cardinality({a \in Asset : ~IsNaN(v[a])})

\* mean over the assets of v, NaN entries skipped: NaN when all are NaN
NanMean(v) == FDiv(NanSum(v), FInt(NanCount(v)))

(***************************************************************************)
(* The arrays of step.  An array is a sequence of rows in positional       *)
(* order; a row keeps its time label, as an xarray coordinate does.        *)
(***************************************************************************)
\* the function f as the explicit table of its values (TLC would otherwise
\* evaluate f's expression again at every application)
Table(f) == f @@ <<>>

\* x.loc[::-1]: the same rows in reverse positional order
Flip(d) == Table([i \in 1..Len(d) |-> d[Len(d) + 1 - i]])

\* data.loc[::-1, "is_liquid", :]
is_liquid(d) == Table([i \in 1..Len(d) |-> d[Len(d) + 1 - i].is_liquid])

\* data.loc[::-1, "close", :]
prices(d) == Table([i \in 1..Len(d) |-> d[Len(d) + 1 - i].close])

\* a shift the other way: each row takes the values one position after it
prices_shifted_ahead(p) ==
    Table([i \in 1..Len(p) |-> IF i = Len(p) THEN [a \in Asset |-> NaN] ELSE p[i + 1]])

\* prices.shift({"time":1}): each row takes the values one position before it
prices_shifted(p) ==
    Table([i \in 1..Len(p) |-> IF i = 1 THEN [a \in Asset |-> NaN] ELSE p[i - 1]])

\* the return with its sign turned: (prices_shifted - prices)/prices_shifted
returns_reversed(p) ==
    LET ps == prices_shifted(p)
    IN  Table([i \in 1..Len(p) |->
            Table([a \in Asset |-> FDiv(FSub(ps[i][a], p[i][a]), ps[i][a])])])

\* (prices - prices_shifted)/prices_shifted
returns(p) ==
    LET ps == prices_shifted(p)
    IN  Table([i \in 1..Len(p) |->
            Table([a \in Asset |-> FDiv(FSub(p[i][a], ps[i][a]), ps[i][a])])])

\* sum of col[lo..hi]
RECURSIVE SumRange(_, _, _)
SumRange(col, lo, hi) ==
    IF hi < lo THEN Zero ELSE FAdd(SumRange(col, lo, hi - 1), col[hi])

\* xarray without bottleneck: the window is constructed and averaged afresh at
\* every position, and kept where it holds Window values that are not NaN
WindowMean(col, i) ==
    IF i < Window \/ \E j \in (i - Window + 1)..i : IsNaN(col[j]) THEN NaN
    ELSE FDiv(SumRange(col, i - Window + 1, i), FInt(Window))

\* bottleneck.move_mean: <<asum, count>> after position i, a running sum that
\* adds the entering value and subtracts the leaving one
RECURSIVE MoveState(_, _)
MoveState(col, i) ==
    IF i = 0 THEN <<Zero, 0>>
    ELSE LET prev == MoveState(col, i - 1)
             ai == col[i]
         IN  IF i <= Window
             THEN IF IsNaN(ai) THEN prev ELSE <<FAdd(prev[1], ai), prev[2] + 1>>
             ELSE LET aold == col[i - Window]
                  IN  IF ~IsNaN(ai)
                      THEN IF ~IsNaN(aold)
                           THEN <<FAdd(prev[1], FSub(ai, aold)), prev[2]>>
                           ELSE <<FAdd(prev[1], ai), prev[2] + 1>>
                      ELSE IF ~IsNaN(aold)
                           THEN <<FSub(prev[1], aold), prev[2] - 1>>
                           ELSE prev

MoveMean(col, i) ==
    LET s == MoveState(col, i)
    IN  IF s[2] >= Window THEN FDiv(s[1], FInt(s[2])) ELSE NaN

\* column a of the array r
Column(r, a) == Table([j \in 1..Len(r) |-> r[j][a]])

\* returns.rolling({"time":100}).mean()
avg_returns(r, bn) ==
    LET col == Table([a \in Asset |-> Column(r, a)])
    IN  Table([i \in 1..Len(r) |->
            Table([a \in Asset |->
                IF bn THEN MoveMean(col[a], i) ELSE WindowMean(col[a], i)])])

\* (is_liquid > 0.0).astype(int)
LiquidMask(liq) ==
    Table([i \in 1..Len(liq) |->
        Table([a \in Asset |-> IF GtZero(liq[i][a]) THEN One ELSE Zero])])

\* (is_liquid > 0.0).astype(int) * avg_returns
liq_avg_returns(liq, avg) ==
    LET mask == LiquidMask(liq)
    IN  Table([i \in 1..Len(avg) |->
            Table([a \in Asset |-> FMul(mask[i][a], avg[i][a])])])

\* the mean over all the assets, the illiquid ones counted with their 0
liq_avg_returns_mean_all(liq, lar) ==
    Table([i \in 1..Len(lar) |-> NanMean(lar[i])])

\* liq_avg_returns.where(is_liquid > 0.0).mean("asset")
liq_avg_returns_mean(liq, lar) ==
    Table([i \in 1..Len(lar) |->
        NanMean(Table([a \in Asset |-> IF GtZero(liq[i][a]) THEN lar[i][a] ELSE NaN]))])

\* the neutralization without the second application of the mask
liq_avg_returns_neutralized_once(liq, lar) ==
    LET m == liq_avg_returns_mean(liq, lar)
    IN  Table([i \in 1..Len(lar) |->
            Table([a \in Asset |-> FSub(lar[i][a], m[i])])])

\* liq_avg_returns - liq_avg_returns_mean, then the mask again
liq_avg_returns_neutralized(liq, lar) ==
    LET m == liq_avg_returns_mean(liq, lar)
        mask == LiquidMask(liq)
    IN  Table([i \in 1..Len(lar) |->
            Table([a \in Asset |-> FMul(mask[i][a], FSub(lar[i][a], m[i]))])])

\* x.fillna(0.0)
fillna(x) == IF IsNaN(x) THEN Zero ELSE x

\* the sum of the row without abs
SignedSum(row) == NanSum(row)

\* abs(x).sum("asset") of one row
AbsSum(row) == NanSum(Table([a \in Asset |-> FAbs(row[a])]))

\* liq_avg_returns_neutralized / abs(liq_avg_returns_neutralized).sum("asset"),
\* then fillna(0.0)
Normalized(neu) ==
    Table([i \in 1..Len(neu) |->
        LET s == AbsSum(neu[i])
        IN  Table([a \in Asset |-> fillna(FDiv(neu[i][a], s))])])

\* liq_avg_returns_neutralized of step and of the raw template
Neutralized(d, bn) ==
    LET liq == is_liquid(d)
    IN  liq_avg_returns_neutralized(
            liq, liq_avg_returns(liq, avg_returns(returns(prices(d)), bn)))

\* the weights table of step and of the raw template: one row per position of
\* the flipped array, under that position's time label
WeightsTable(d, bn) ==
    LET w == Normalized(Neutralized(d, bn))
    IN  Table([i \in 1..Len(d) |-> [time |-> d[Len(d) + 1 - i].time, w |-> w[i]]])

\* bottleneck refuses a window longer than the axis (ValueError)
RollingRaises(d, bn) == bn /\ Len(d) < Window

Raised == [raised |-> TRUE, time |-> 0, w |-> [a \in Asset |-> NaN]]

\* step returning weights[0], the row at the first position
step_first(d, bn) ==
    IF RollingRaises(d, bn) THEN Raised
    ELSE LET t == WeightsTable(d, bn)
         IN  [raised |-> FALSE, time |-> t[1].time, w |-> t[1].w]

\* step(data): weights[-1], the row at the last position
step(d, bn) ==
    IF RollingRaises(d, bn) THEN Raised
    ELSE LET t == WeightsTable(d, bn)
         IN  [raised |-> FALSE, time |-> t[Len(d)].time, w |-> t[Len(d)].w]

(***************************************************************************)
(* Cell 3: the pandas development of the same strategy.                    *)
(***************************************************************************)
\* the column with every NaN after the first valid value replaced by the last
\* valid value before it (fill_method='pad', the default of pct_change)
RECURSIVE Pad(_, _)
Pad(col, i) ==
    IF i > 1 /\ IsNaN(col[i]) THEN Pad(col, i - 1) ELSE col[i]

\* prices.pct_change(1): padded / padded.shift(1) - 1
pct_change(p) ==
    LET col == Table([a \in Asset |-> Column(p, a)])
    IN  Table([i \in 1..Len(p) |->
            Table([a \in Asset |->
                IF i = 1 THEN NaN
                ELSE FSub(FDiv(Pad(col[a], i), Pad(col[a], i - 1)), One)])])

\* returns.rolling(100).mean(): NaN unless the window holds 100 valid values
rolling_mean(r) ==
    LET col == Table([a \in Asset |-> Column(r, a)])
    IN  Table([i \in 1..Len(r) |-> Table([a \in Asset |-> WindowMean(col[a], i)])])

\* the weights table of cell 3, rows in the ascending order iloc[::-1] makes
PandasWeights(d) ==
    LET liq == is_liquid(d)
        neu == liq_avg_returns_neutralized(
                   liq, liq_avg_returns(liq, rolling_mean(pct_change(prices(d)))))
        w == Normalized(neu)
    IN  Table([i \in 1..Len(d) |-> [time |-> d[Len(d) + 1 - i].time, w |-> w[i]]])

(***************************************************************************)
(* The walk-forward driver (qnstepper.test_strategy).                      *)
(***************************************************************************)
\* the rows of d dated t or earlier, in the order d has them
UpTo(d, t) == SelectSeq(d, LAMBDA row : row.time <= t)

\* the latest and the earliest date of d
LastTime(d) == CHOOSE t \in {d[i].time : i \in 1..Len(d)} :
                   \A i \in 1..Len(d) : d[i].time <= t
FirstTime(d) == CHOOSE t \in {d[i].time : i \in 1..Len(d)} :
                    \A i \in 1..Len(d) : d[i].time >= t

\* init_data_length=100: the first evaluation has 100 dates of history
init_data_length == Window

\* the date the driver evaluates next
NextEval == init_data_length + Len(output)

(***************************************************************************)
(* The Panels the loader supplies.  A Panel of len dates gives every asset *)
(* a price history and a liquidity history; the histories differ from the  *)
(* flat, always liquid one in their last dates, so that the differences    *)
(* fall inside the trailing window of the last dates.                      *)
(***************************************************************************)
\* the histories of len dates that are 1 up to the last `free` dates and take
\* values of vals there
History(len, free, vals) ==
    {h \in [1..len -> vals \cup {One}] : \A t \in 1..len : t <= len - free => h[t] = One}

\* the Panel in ascending order of time
Ascending(len, close, liq) ==
    [t \in 1..len |-> [time |-> t,
                       close |-> [a \in Asset |-> close[a][t]],
                       is_liquid |-> [a \in Asset |-> liq[a][t]]]]

Always(len, v) == [t \in 1..len |-> v]
AtLast(len, v) == [t \in 1..len |-> IF t = len THEN v ELSE One]

\* liquidity histories: everything liquid; A never liquid; C illiquid on the
\* last date; only C liquid on the last date; nothing liquid on the last date;
\* B's indicator absent on the last date and A's negative throughout
Liquidity(len) ==
    { [a \in Asset |-> Always(len, One)],
      [a \in Asset |-> IF a = "A" THEN Always(len, Zero) ELSE Always(len, One)],
      [a \in Asset |-> IF a = "C" THEN AtLast(len, Zero) ELSE Always(len, One)],
      [a \in Asset |-> IF a = "C" THEN Always(len, One) ELSE AtLast(len, Zero)],
      [a \in Asset |-> AtLast(len, Zero)],
      [a \in Asset |-> IF a = "B" THEN AtLast(len, NaN)
                       ELSE IF a = "A" THEN Always(len, FInt(-1))
                       ELSE Always(len, One)] }

\* a close 1% above 1
Risen == Frac(101, 100)

\* well-formed Panels: a close is positive or absent
Panels ==
    UNION { { Ascending(len, [a \in Asset |-> IF a = "A" THEN ca
                                              ELSE IF a = "B" THEN cb ELSE cc], liq) :
                ca \in History(len, 3, {Risen, NaN}),
                cb \in History(len, 2, {Risen}),
                cc \in History(len, 0, {}),
                liq \in Liquidity(len) } : len \in 1..MaxLen }

\* malformed Panels: closes that are zero or negative
MalformedPanels ==
    UNION { { Ascending(len, [a \in Asset |-> IF a = "A" THEN ca
                                              ELSE IF a = "B" THEN cb ELSE cc], liq) :
                ca \in History(len, 4, {Zero}),
                cb \in History(len, 2, {Zero, FInt(-1)}),
                cc \in History(len, 0, {}),
                liq \in {[a \in Asset |-> Always(len, One)],
                         [a \in Asset |-> AtLast(len, Zero)],
                         [a \in Asset |-> IF a = "A" THEN AtLast(len, Zero)
                                          ELSE Always(len, One)]} } : len \in 1..MaxLen }

(***************************************************************************)
(* The notebook, cell by cell.                                             *)
(***************************************************************************)
\* cells 1-2: qndata.load_data hands the Panel over latest date first
Loaded(panels, layouts) ==
    /\ \E p \in panels, layout \in layouts :
          data = IF layout = "descending" THEN Flip(p) ELSE p
    /\ bottleneck \in BOOLEAN
    /\ pc = "cell3"
    /\ weights = <<>>
    /\ single = <<>>
    /\ output = <<>>
    /\ raw_weights = <<>>

Init == Loaded(Panels, {"descending"})

\* a loader that hands the Panel over in either order of time
InitAnyOrder == Loaded(Panels, {"descending", "ascending"})

\* a loader that hands over closes that are zero or negative
InitMalformed == Loaded(MalformedPanels, {"descending"})


\* cell 3: weights = ... ; weights = weights.fillna(0.0)
Cell3 ==
    /\ pc = "cell3"
    /\ weights' = PandasWeights(data)
    /\ pc' = "cell7"
    /\ UNCHANGED <<data, bottleneck, single, output, raw_weights>>

\* cell 7: display(step(data)); an exception stops the notebook
Cell7 ==
    /\ pc = "cell7"
    /\ single' = <<step(data, bottleneck)>>
    /\ pc' = IF step(data, bottleneck).raised THEN "failed" ELSE "cell8"
    /\ UNCHANGED <<data, bottleneck, weights, output, raw_weights>>

\* cell 8: one evaluation of the driver: step on the data up to the date, the
\* result appended to the Output Series
DriverStep ==
    /\ pc = "cell8"
    /\ NextEval <= LastTime(data)
    /\ output' = Append(output, step(UpTo(data, NextEval), bottleneck))
    /\ UNCHANGED <<data, bottleneck, pc, weights, single, raw_weights>>

\* cell 8: the driver has evaluated every date
DriverDone ==
    /\ pc = "cell8"
    /\ NextEval > LastTime(data)
    /\ pc' = "cell18"
    /\ UNCHANGED <<data, bottleneck, weights, single, output, raw_weights>>

\* cell 18: the raw submission template computes the whole table in one pass
Cell18 ==
    /\ pc = "cell18"
    /\ raw_weights' = WeightsTable(data, bottleneck)
    /\ pc' = "done"
    /\ UNCHANGED <<data, bottleneck, weights, single, output>>

Next == Cell3 \/ Cell7 \/ DriverStep \/ DriverDone \/ Cell18

Spec == Init /\ [][Next]_vars

SpecAnyOrder == InitAnyOrder /\ [][Next]_vars

SpecMalformed == InitMalformed /\ [][Next]_vars

(***************************************************************************)
(* The Panel by date, as the specification states the algorithm: the       *)
(* quantities the claims speak of, independent of the arrays of the code.  *)
(***************************************************************************)
Range(s) == {s[i] : i \in 1..Len(s)}

Dates == {r.time : r \in Range(data)}

RowOf(t) == CHOOSE r \in Range(data) : r.time = t

CloseAt(t, a) == IF t \in Dates THEN RowOf(t).close[a] ELSE NaN

LiquidAt(t, a) == GtZero(RowOf(t).is_liquid[a])

\* return[t,a] = (price[t,a] - price[t-1,a]) / price[t-1,a]
ReturnAt(t, a) == FDiv(FSub(CloseAt(t, a), CloseAt(t - 1, a)), CloseAt(t - 1, a))

RECURSIVE ReturnSum(_, _, _)
ReturnSum(t, a, n) ==
    IF n = 0 THEN Zero ELSE FAdd(ReturnSum(t - 1, a, n - 1), ReturnAt(t, a))

\* avg_return[t,a] = mean(return[t-99..t, a]), undefined unless all are defined
TrailingAvg(t, a) ==
    IF \E s \in (t - Window + 1)..t : IsNaN(ReturnAt(s, a)) THEN NaN
    ELSE FDiv(ReturnSum(t, a, Window), FInt(Window))

\* avg_return[t,.]
TrailingAvgs(t) == Table([a \in Asset |-> TrailingAvg(t, a)])

\* the neutralized signals at t: the average returns minus the mean of the
\* defined average returns of the assets liquid at t
DemeanedRow(t) ==
    LET avg == TrailingAvgs(t)
        m == NanMean(Table([a \in Asset |-> IF LiquidAt(t, a) THEN avg[a] ELSE NaN]))
    IN  Table([a \in Asset |-> FSub(avg[a], m)])

\* t has Window trailing observations (returns) behind it
HasHistory(t) == t - Window \in Dates

\* every Weight Vector the calculator has produced so far, with its date:
\* the single call, the Output Series and the rows of the raw template
Calculated ==
    {[time |-> r.time, w |-> r.w] : r \in Range(raw_weights)}
        \cup {[time |-> r.time, w |-> r.w] :
                 r \in {x \in Range(single) \cup Range(output) : ~x.raised}}

SumAbs(w) == NanSum([a \in Asset |-> FAbs(w[a])])

SumLiquid(t, w) == NanSum([a \in Asset |-> IF LiquidAt(t, a) THEN w[a] ELSE Zero])

ZeroVector == [a \in Asset |-> Zero]

\* the row dated t of a weights table
RowAt(tbl, t) == CHOOSE r \in Range(tbl) : r.time = t

(***************************************************************************)
(* C2.  Full investment.                                                   *)
(***************************************************************************)
\* some asset has a neutralized signal that is a number other than zero
SomeSignalLeft(t) ==
    LET dm == DemeanedRow(t)
    IN  \E a \in Asset : LiquidAt(t, a) /\ IsFinite(dm[a]) /\ dm[a] # Zero

\* C2 as stated: at every date with Window trailing observations the absolute
\* weights sum to 0 or to 1, and to 0 only if every asset is illiquid or has a
\* zero (or undefined) signal, the masked average return
C2_AsStated ==
    \A r \in Calculated :
        HasHistory(r.time) =>
            /\ SumAbs(r.w) \in {Zero, One}
            /\ SumAbs(r.w) = Zero =>
                   \A a \in Asset : \/ ~LiquidAt(r.time, a)
                                    \/ TrailingAvg(r.time, a) \in {Zero, NaN}

\* C2 amended: at every date with Window trailing observations the absolute
\* weights sum to 0 or to 1, and to 0 exactly when no liquid asset has a
\* neutralized signal (average return minus the mean over the liquid assets)
\* that is a number other than zero
C2_FullyInvested ==
    \A r \in Calculated :
        HasHistory(r.time) =>
            /\ SumAbs(r.w) \in {Zero, One}
            /\ SumAbs(r.w) = Zero <=> ~SomeSignalLeft(r.time)

\* a date whose liquid assets all have the same average return, not zero, and so
\* get no weight, after a date that is fully invested
C2_Witness ==
    /\ pc = "done"
    /\ \E r \in Calculated :
          /\ HasHistory(r.time)
          /\ SumAbs(r.w) = Zero
          /\ \E a \in Asset : LiquidAt(r.time, a) /\ IsFinite(TrailingAvg(r.time, a))
                                 /\ TrailingAvg(r.time, a) # Zero
    /\ \E r \in Calculated : HasHistory(r.time) /\ SumAbs(r.w) = One

(***************************************************************************)
(* C3.  Illiquid assets carry no weight.                                   *)
(***************************************************************************)
\* C3: an asset whose is_liquid at t is <= 0 or absent has weight exactly 0 at t
C3_IlliquidZero ==
    \A r \in Calculated :
        \A a \in Asset : ~LiquidAt(r.time, a) => r.w[a] = Zero

\* an illiquid asset whose price moved (or is missing) in the window has weight
\* 0 while the liquid assets are invested
C3_Witness ==
    /\ pc = "done"
    /\ \E r \in Calculated, a \in Asset :
          /\ HasHistory(r.time)
          /\ ~LiquidAt(r.time, a)
          /\ TrailingAvg(r.time, a) # Zero
          /\ r.w[a] = Zero
          /\ SumAbs(r.w) = One

(***************************************************************************)
(* C4.  Cross-sectional neutrality.                                        *)
(***************************************************************************)
\* C4: at a date with a liquid asset and a nonzero normalization sum the weights
\* of the liquid assets sum to 0, also when a liquid asset has no defined
\* average return
C4_Neutral ==
    \A r \in Calculated :
        (/\ \E a \in Asset : LiquidAt(r.time, a)
         /\ SumAbs(r.w) # Zero)
            => SumLiquid(r.time, r.w) = Zero

\* a liquid asset without a defined average return is left out while the other
\* two are long and short
C4_Witness ==
    /\ pc = "done"
    /\ \E r \in Calculated :
          /\ \E a \in Asset : LiquidAt(r.time, a) /\ IsNaN(TrailingAvg(r.time, a))
          /\ \E a \in Asset : FLess(Zero, r.w[a])
          /\ \E a \in Asset : FLess(r.w[a], Zero)

(***************************************************************************)
(* C1.  No lookahead.                                                      *)
(***************************************************************************)
\* what the dates after t may hold instead
AltRows ==
    {[close |-> [a \in Asset |-> IF a = "C" THEN c ELSE FInt(2)],
      is_liquid |-> [a \in Asset |-> IF a = "A" THEN One ELSE l]] :
        c \in {Risen, NaN}, l \in {Zero, One}}

\* the Panels that hold what d holds up to and including t and differ after t
Variants(d, t) ==
    {[i \in 1..Len(d) |->
        IF d[i].time <= t THEN d[i]
        ELSE [time |-> d[i].time, close |-> alt.close, is_liquid |-> alt.is_liquid]] :
        alt \in AltRows}

\* C1: two Panels equal up to and including t give the same Weight Vector at t,
\* in the whole-panel weights table and from step called at evaluation time t
C1_NoLookahead ==
    pc = "done" =>
        \A t \in Dates : \A alt \in Variants(data, t) :
            /\ RowAt(WeightsTable(alt, bottleneck), t).w = RowAt(raw_weights, t).w
            /\ \A r \in Range(output) :
                   r.time = t => step(UpTo(alt, t), bottleneck).w = r.w

\* the whole-panel table holds an invested row at a date that is not the last
C1_Witness ==
    /\ pc = "done"
    /\ \E t \in Dates :
          /\ t + 1 \in Dates
          /\ SumAbs(RowAt(raw_weights, t).w) = One
          /\ \E r \in Range(output) : r.time = t /\ SumAbs(r.w) = One

(***************************************************************************)
(* C8.  Direction of the weights.                                          *)
(***************************************************************************)
\* all assets are liquid at t and have a defined average return
AllLiquidDefined(t) ==
    \A a \in Asset : LiquidAt(t, a) /\ IsFinite(TrailingAvg(t, a))

\* 3 always-liquid assets, constant prices for more than a window of dates, then
\* A rises 1% on the last date while B and C stay flat
IsScenario ==
    /\ Cardinality(Dates) = Window + 2
    /\ \A t \in Dates : \A a \in Asset :
          /\ RowOf(t).is_liquid[a] = One
          /\ CloseAt(t, a) = IF a = "A" /\ t = Window + 2 THEN Risen ELSE One

\* C8: where all assets are liquid with a defined average return, an asset above
\* the cross-sectional mean is long, one below it is short, and the weights are
\* proportional to the distances from the mean; in the scenario A is long, B and
\* C are short and the absolute weights sum to 1
C8_Direction ==
    \A r \in Calculated :
        /\ AllLiquidDefined(r.time) =>
              LET dm == DemeanedRow(r.time)
              IN  /\ \A a \in Asset :
                        /\ FLess(Zero, dm[a]) => FLess(Zero, r.w[a])
                        /\ FLess(dm[a], Zero) => FLess(r.w[a], Zero)
                  /\ \A b, c \in Asset :
                        r.w[b] # Zero /\ r.w[c] # Zero =>
                            /\ FLess(Zero, FDiv(dm[b], r.w[b]))
                            /\ FDiv(dm[b], r.w[b]) = FDiv(dm[c], r.w[c])
        /\ (IsScenario /\ r.time = Window + 2) =>
              /\ FLess(Zero, r.w["A"])
              /\ FLess(r.w["B"], Zero)
              /\ FLess(r.w["C"], Zero)
              /\ SumAbs(r.w) = One

\* the scenario has been evaluated by the single call
C8_Witness ==
    /\ IsScenario
    /\ pc = "done"
    /\ ~single[1].raised
    /\ single[1].time = Window + 2
    /\ FLess(Zero, single[1].w["A"])

(***************************************************************************)
(* C9.  Walk-forward equals whole-panel.                                   *)
(***************************************************************************)
\* C9: after any number of driver steps the Output Series holds one Weight
\* Vector per evaluated date, in order of time, each equal to the row of that
\* date in the table the raw template computes over the whole Panel
C9_WalkForward ==
    output # <<>> =>
        LET whole == WeightsTable(data, bottleneck)
        IN  \A k \in 1..Len(output) :
                /\ ~output[k].raised
                /\ output[k].time = init_data_length + k - 1
                /\ output[k].w = RowAt(whole, output[k].time).w
                /\ pc = "done" => output[k].w = RowAt(raw_weights, output[k].time).w

\* the driver has evaluated two dates that both carry weights
C9_Witness ==
    /\ pc = "done"
    /\ Len(output) >= 2
    /\ \E j, k \in 1..Len(output) :
          /\ j # k
          /\ SumAbs(output[j].w) = One
          /\ SumAbs(output[k].w) = One
          /\ output[j].w # output[k].w

(***************************************************************************)
(* C5.  step returns the vector of the latest date.                        *)
(***************************************************************************)
\* C5 as stated: whichever order of time the Panel arrives in, the vector step
\* returns is the one of the latest date of the Panel it was given, never the
\* one of the earliest date
C5_AsStated ==
    /\ \A r \in Range(single) :
          ~r.raised => /\ r.time = LastTime(data)
                       /\ Len(data) > 1 => r.time # FirstTime(data)
    /\ \A k \in 1..Len(output) :
          ~output[k].raised => output[k].time = init_data_length + k - 1

(***************************************************************************)
(* C6.  Insufficient history.                                              *)
(***************************************************************************)
\* C6 as stated: step given a Panel of fewer than Window + 1 dates, a Panel
\* shorter than the window included, raises no error and returns all zeros
C6_AsStated ==
    /\ \A r \in Range(single) :
          Len(data) < Window + 1 => ~r.raised /\ r.w = ZeroVector
    /\ \A k \in 1..Len(output) :
          init_data_length + k - 1 < Window + 1 =>
              ~output[k].raised /\ output[k].w = ZeroVector

(***************************************************************************)
(* C7.  Degenerate inputs.                                                 *)
(***************************************************************************)
\* the normalization sum of the last row of step's arrays on the Panel d
NormalizationSum(d, bn) == AbsSum(Neutralized(d, bn)[Len(d)])

\* what C7 asks of one result of step on the Panel d
Sanitized(r, d) ==
    /\ ~r.raised
    /\ \A a \in Asset : IsFinite(r.w[a])
    /\ ~(IsFinite(NormalizationSum(d, bottleneck))
            /\ NormalizationSum(d, bottleneck) # Zero) => r.w = ZeroVector

\* C7 as stated: for every Panel step raises no error, every weight it returns
\* is a finite number, and the vector is 0 whenever the normalization sum is
\* zero or not finite
C7_AsStated ==
    /\ \A r \in Range(single) : Sanitized(r, data)
    /\ \A k \in 1..Len(output) :
          Sanitized(output[k], UpTo(data, init_data_length + k - 1))

(***************************************************************************)
(* C10.  step against the pandas cell.                                     *)
(***************************************************************************)
\* C10 as stated: the vector step(data) returns equals the last row of the
\* weights table of the pandas cell
C10_AsStated ==
    \A r \in Range(single) : ~r.raised => r.w = weights[Len(weights)].w
====
